---- MODULE Spec2Model ----
(***************************************************************************)
(* Model of multi_kmeans.py: MultiKmeansQuantizer, a bank of num_codebooks *)
(* codebooks of codebook_size centers of dimension dim, with its encode /  *)
(* decode / forward / refine_indexes / refine_indexes_stochastic /         *)
(* get_product_quantizer / compute_ref_loss methods.                       *)
(*                                                                         *)
(* Tensors are functions over 0-based index ranges, with integer entries   *)
(* (exact arithmetic).  Parameters (nn.Parameter) live in a heap of        *)
(* storages, so that two quantizer objects can be told apart from two      *)
(* names of one storage.  Quantities the code computes with exp / log /    *)
(* softmax are kept as terms over the tensors they are computed from,      *)
(* together with the set of parameters autograd would reach from them.     *)
(***************************************************************************)
EXTENDS Integers, Sequences, FiniteSets, TLC

VARIABLES
    heap,        \* storage address -> value of the nn.Parameter stored there
    objs,        \* the MultiKmeansQuantizer objects constructed so far
    pc,          \* the driver's position: "idle" between calls, "encode" / "forward"
                 \* inside that method's loop, "returned" holding a call's result
    self,        \* index in objs of the object the running call is on
    x,           \* the running call's argument x, as (B, dim)
    indexes,     \* the running call's local `indexes`, as (B, num_codebooks)
    i,           \* number of loop iterations the running call has completed
    num_iters,   \* the running call's argument num_iters
    losses,      \* forward's locals entropy_loss, frame_entropy, reconstruction_loss
    last,        \* the latest refinement step of the running call: its input and result
    ret,         \* the call that has just returned: its method, arguments and outcome
    optim_steps  \* number of optimizer updates applied so far

vars == <<heap, objs, pc, self, x, indexes, i, num_iters, losses, last, ret, optim_steps>>

----------------------------------------------------------------------------
(* Bounds of the model. *)

\* tensor entries (centers, x) of the search specification range over -1..MaxVal
MaxVal == 2
\* num_iters ranges over 0..MaxIters
MaxIters == 2
\* optimizer updates explored
MaxOptimSteps == 1
\* quantizer objects explored: the constructed one and those merged from it
MaxObjs == 2

Vals == (0 - 1)..MaxVal

\* tensor entries (centers, x) of the full specification
DriverVals == {0, 1}

\* (dim, codebook_size, num_codebooks) of the constructed quantizer, in the
\* search specification and in the full specification
Shapes == {<<1, 2, 1>>, <<1, 2, 2>>, <<2, 2, 1>>, <<1, 3, 1>>}
DriverShapes == {<<1, 2, 1>>, <<1, 2, 2>>, <<1, 3, 1>>}

\* batch sizes B of x
BatchSizes == {1}

\* batch sizes of the code given to decode
CodeBatchSizes == {1, 2}

\* values an optimizer update may give frame_entropy_scale
ScaleVals == {0, 1}

Range0(n) == 0..(n - 1)

None == "None"
\* forward's three loss names before the loop has bound them
Unbound == [bound |-> FALSE]

----------------------------------------------------------------------------
(* Tensor helpers. *)

\* sum of f[0] .. f[n-1]
RECURSIVE SumTo(_, _)
SumTo(f, n) == IF n = 0 THEN 0 ELSE f[n - 1] + SumTo(f, n - 1)

\* Tensor.size(0) of a tensor kept as a function over 0..B-1
Size0(t) == Cardinality(DOMAIN t)

\* (t ** 2).sum() of a (B, dim) tensor
SumSq(t, dim) ==
    SumTo([b \in DOMAIN t |-> SumTo([d \in Range0(dim) |-> t[b][d] * t[b][d]], dim)], Size0(t))

ArgMin(v, n) ==
    CHOOSE k \in Range0(n) :
        /\ \A j \in Range0(n) : v[k] <= v[j]
        /\ \A j \in Range0(n) : j < k => v[k] < v[j]

ArgMaxOffByOne(v, n) ==
    1 + (CHOOSE k \in Range0(n) :
            /\ \A j \in Range0(n) : v[j] <= v[k]
            /\ \A j \in Range0(n) : j < k => v[j] < v[k])

\* torch.argmax over a dimension of size n: the index of the first maximal value
ArgMax(v, n) ==
    CHOOSE k \in Range0(n) :
        /\ \A j \in Range0(n) : v[j] <= v[k]
        /\ \A j \in Range0(n) : j < k => v[j] < v[k]

----------------------------------------------------------------------------
(* The object and its parameters. *)

Centers(obj) == heap[obj.centers]

FrameEntropyScale(obj) == heap[obj.frame_entropy_scale]

\* all (num_codebooks, codebook_size, dim) tensors with entries in vals
CenterTensors(dim, K, C, vals) == [Range0(C) -> [Range0(K) -> [Range0(dim) -> vals]]]

\* all (B, dim) tensors with entries in vals
XTensors(B, dim, vals) == [Range0(B) -> [Range0(dim) -> vals]]

\* all (B, num_codebooks) index tensors with entries in 0..codebook_size-1
CodeTensors(B, C, K) == [Range0(B) -> [Range0(C) -> Range0(K)]]

\* __init__: a new object whose two parameters are stored at fresh addresses
\* at, at + 1
NewObj(dim, K, C, at) ==
    [dim |-> dim, codebook_size |-> K, num_codebooks |-> C,
     centers |-> at, frame_entropy_scale |-> at + 1]

----------------------------------------------------------------------------
(* decode *)

DecodeFirstCodebookOnly(obj, code) ==
    [b \in DOMAIN code |->
        [d \in Range0(obj.dim) |->
            IF obj.num_codebooks = 0 THEN 0 ELSE Centers(obj)[0][code[b][0]][d]]]

\* decode(code): gather the chosen center of every codebook, sum over codebooks
Decode(obj, code) ==
    LET gathered == [b \in DOMAIN code |->
                        [c \in Range0(obj.num_codebooks) |-> Centers(obj)[c][code[b][c]]]]
    IN  [b \in DOMAIN code |->
            [d \in Range0(obj.dim) |->
                SumTo([c \in Range0(obj.num_codebooks) |-> gathered[b][c][d]],
                      obj.num_codebooks)]]

----------------------------------------------------------------------------
(* refine_indexes *)

\* cur_centers: (B, num_codebooks, dim), the currently chosen centers
CurCenters(obj, idx) ==
    [b \in DOMAIN idx |-> [c \in Range0(obj.num_codebooks) |-> Centers(obj)[c][idx[b][c]]]]

\* x_err: (B, dim), the current error of the approximation vs. x
XErr(obj, xx, idx) ==
    [b \in DOMAIN idx |->
        [d \in Range0(obj.dim) |->
            SumTo([c \in Range0(obj.num_codebooks) |-> CurCenters(obj, idx)[b][c][d]],
                  obj.num_codebooks) - xx[b][d]]]

ModifiedSumsqErrsKeepingCur(obj, xx, idx) ==
    LET err == XErr(obj, xx, idx)
    IN  [b \in DOMAIN idx |->
            [c \in Range0(obj.num_codebooks) |->
                [k \in Range0(obj.codebook_size) |->
                    SumTo([d \in Range0(obj.dim) |->
                              (err[b][d] + Centers(obj)[c][k][d])
                                * (err[b][d] + Centers(obj)[c][k][d])],
                          obj.dim)]]]

\* modified_sumsq_errs: (B, num_codebooks, codebook_size); entry [b][c][k] is the
\* squared error assuming codebook c's entry were replaced by index k
ModifiedSumsqErrs(obj, xx, idx) ==
    LET cur == CurCenters(obj, idx)
        err == XErr(obj, xx, idx)
    IN  [b \in DOMAIN idx |->
            [c \in Range0(obj.num_codebooks) |->
                [k \in Range0(obj.codebook_size) |->
                    SumTo([d \in Range0(obj.dim) |->
                              (err[b][d] - cur[b][c][d] + Centers(obj)[c][k][d])
                                * (err[b][d] - cur[b][c][d] + Centers(obj)[c][k][d])],
                          obj.dim)]]]

\* refine_indexes(x, indexes): per codebook, the arg-max of the negated
\* modified squared errors, all codebooks from the same x_err
RefineIndexes(obj, xx, idx) ==
    LET sumsq == ModifiedSumsqErrs(obj, xx, idx)
    IN  [b \in DOMAIN idx |->
            [c \in Range0(obj.num_codebooks) |->
                ArgMax([k \in Range0(obj.codebook_size) |-> 0 - sumsq[b][c][k]],
                       obj.codebook_size)]]

----------------------------------------------------------------------------
(* refine_indexes_stochastic *)

(* The losses are computed with exp, softmax and log.  A loss is kept as the *)
(* function it is (fn) of the tensors it is computed from, and with the set  *)
(* of parameters that autograd reaches from it (grad), which is computed     *)
(* operation by operation as the code builds the graph.                      *)

DetachKeepsGraph(g) == g

\* Tensor.detach(): the result is cut from the graph
Detach(g) == {}

\* the graph of the result of an operation on two tensors
Op2(a, b) == a \cup b

\* modified_sumsq_errs is computed from the parameter self.centers
SumsqErrsGrad == {"centers"}

\* self.frame_entropy_scale is a parameter
ScaleGrad == {"frame_entropy_scale"}

\* scaled_neg_sumsq_errs_detached =
\*   modified_sumsq_errs.detach() * -(10.0 * self.frame_entropy_scale).exp()
ScaledDetachedGrad == Op2(Detach(SumsqErrsGrad), ScaleGrad)

\* avg_frame_entropy = -(codebook_logprobs_detached * codebook_probs_detached)
\*   .sum(dim=-1).mean(), both factors from scaled_neg_sumsq_errs_detached
AvgFrameEntropyGrad == Op2(ScaledDetachedGrad, ScaledDetachedGrad)

\* codebook_probs = (modified_sumsq_errs
\*   * -(10.0 * self.frame_entropy_scale.detach()).exp()).softmax(dim=-1)
CodebookProbsGrad == Op2(SumsqErrsGrad, Detach(ScaleGrad))

\* expected_sumsq = (codebook_probs * modified_sumsq_errs).sum() / num_codebooks
ExpectedSumsqGrad == Op2(CodebookProbsGrad, SumsqErrsGrad)

\* entropy_loss = log(codebook_size) - class_entropy, where class_entropy =
\*   -(avg_probs * (avg_probs + 1.0e-20).log()).sum(dim=1).mean() and
\*   avg_probs = codebook_probs.mean(dim=0)
EntropyLossGrad == Op2(CodebookProbsGrad, CodebookProbsGrad)

\* reconstruction_loss = expected_sumsq / (x ** 2).sum()
ReconstructionLossGrad == ExpectedSumsqGrad

CategoricalSupportAsRandint(obj, xx, idx) ==
    CodeTensors(Size0(idx), obj.num_codebooks, obj.codebook_size - 1)

\* Categorical(logits = log_softmax(..)).sample(): a softmax of finite logits
\* gives every index a positive probability, so any index tensor can be drawn
CategoricalSupport(obj, xx, idx) ==
    CodeTensors(Size0(idx), obj.num_codebooks, obj.codebook_size)

\* avg_frame_entropy, a function of modified_sumsq_errs and frame_entropy_scale
AvgFrameEntropy(obj, xx, idx) ==
    [fn |-> "avg_frame_entropy", sumsq |-> ModifiedSumsqErrs(obj, xx, idx),
     scale |-> FrameEntropyScale(obj), grad |-> AvgFrameEntropyGrad]

\* entropy_loss, a function of modified_sumsq_errs and frame_entropy_scale
EntropyLoss(obj, xx, idx) ==
    [fn |-> "entropy_loss", sumsq |-> ModifiedSumsqErrs(obj, xx, idx),
     scale |-> FrameEntropyScale(obj), grad |-> EntropyLossGrad]

\* expected_sumsq is a sum of products of positive probabilities and squared
\* errors >= 0: it is zero exactly when every modified squared error is zero
ExpectedSumsqIsZero(obj, xx, idx) ==
    \A b \in DOMAIN idx : \A c \in Range0(obj.num_codebooks) :
        \A k \in Range0(obj.codebook_size) : ModifiedSumsqErrs(obj, xx, idx)[b][c][k] = 0

\* what an IEEE division num / den (num >= 0, den >= 0) gives
FloatDiv(num_is_zero, den_is_zero) ==
    IF ~den_is_zero THEN "finite" ELSE IF num_is_zero THEN "nan" ELSE "inf"

\* the denominator of reconstruction_loss: (x ** 2).sum(), no epsilon added
ReconstructionDenominator(xx, dim) == [sumsq |-> SumSq(xx, dim), eps |-> FALSE]

\* a denominator is zero when the energy is zero and no epsilon is added to it
DenominatorIsZero(den) == den.sumsq = 0 /\ ~den.eps

\* reconstruction_loss = expected_sumsq / (x ** 2).sum(), a function of
\* modified_sumsq_errs, frame_entropy_scale and x; with no codebooks,
\* expected_sumsq is itself 0 / num_codebooks = 0 / 0
ReconstructionLoss(obj, xx, idx) ==
    LET den == ReconstructionDenominator(xx, obj.dim)
    IN  [fn |-> "reconstruction_loss", sumsq |-> ModifiedSumsqErrs(obj, xx, idx),
         scale |-> FrameEntropyScale(obj), grad |-> ReconstructionLossGrad,
         den |-> den,
         float |-> IF obj.num_codebooks = 0
                   THEN "nan"
                   ELSE FloatDiv(ExpectedSumsqIsZero(obj, xx, idx), DenominatorIsZero(den))]

\* refine_indexes_stochastic(x, indexes), when the sampler draws `sample`:
\* (indexes, entropy_loss, avg_frame_entropy, reconstruction_loss)
RefineIndexesStochastic(obj, xx, idx, sample) ==
    [indexes |-> sample,
     entropy_loss |-> EntropyLoss(obj, xx, idx),
     frame_entropy |-> AvgFrameEntropy(obj, xx, idx),
     reconstruction_loss |-> ReconstructionLoss(obj, xx, idx)]

----------------------------------------------------------------------------
(* get_product_quantizer *)

KOutSwapped(k_in1, k_in2, K) == k_in1 + k_in2 * K

\* k_out = k_in1 * self.codebook_size + k_in2
KOut(k_in1, k_in2, K) == k_in1 * K + k_in2

\* the (k_in1, k_in2) whose assignment to ans.centers[c_out, k_out] is the last
\* one the two inner loops make; {} when they make none
LastWriter(k_out, K) ==
    LET writers == {p \in Range0(K) \X Range0(K) : KOut(p[1], p[2], K) = k_out}
    IN  {p \in writers : \A q \in writers : q[1] < p[1] \/ (q[1] = p[1] /\ q[2] <= p[2])}

\* ans.centers after the loops: fresh is what the constructor drew for it
ProductCenters(obj, fresh) ==
    LET K == obj.codebook_size
    IN  [c_out \in Range0(obj.num_codebooks \div 2) |->
            [k_out \in Range0(K * K) |->
                IF LastWriter(k_out, K) = {} THEN fresh[c_out][k_out]
                ELSE LET p == CHOOSE q \in LastWriter(k_out, K) : TRUE
                     IN  [d \in Range0(obj.dim) |->
                            Centers(obj)[2 * c_out][p[1]][d]
                              + Centers(obj)[2 * c_out + 1][p[2]][d]]]]

ProductObjSharingScale(obj, at) ==
    [dim |-> obj.dim, codebook_size |-> obj.codebook_size * obj.codebook_size,
     num_codebooks |-> obj.num_codebooks \div 2,
     centers |-> at, frame_entropy_scale |-> obj.frame_entropy_scale]

\* ans = MultiKmeansQuantizer(dim, codebook_size ** 2, num_codebooks // 2)
ProductObj(obj, at) ==
    NewObj(obj.dim, obj.codebook_size * obj.codebook_size, obj.num_codebooks \div 2, at)

----------------------------------------------------------------------------
(* compute_ref_loss *)

\* the names an instance resolves: what the class body defines and what
\* __init__ sets (nn.Module defines neither _logits nor _to_output)
Attributes ==
    {"__init__", "get_product_quantizer", "compute_ref_loss", "forward", "encode",
     "encode_as_bytes", "decode", "refine_indexes", "refine_indexes_stochastic",
     "dim", "codebook_size", "num_codebooks", "centers", "frame_entropy_scale"}

----------------------------------------------------------------------------
(* The state machine.  A call from the driver is one action, except encode   *)
(* and forward, whose loops take one action per iteration.  A call that has  *)
(* returned leaves its outcome in ret until the driver goes on.  The         *)
(* optimizer is the external party that updates parameters between calls.    *)

NoCall == [method |-> None]
NoStep == [taken |-> FALSE]

Idle == pc = "idle"

\* no call is running: there is no call frame
NoFrame ==
    /\ self = None
    /\ x = None
    /\ indexes = None
    /\ i = 0
    /\ num_iters = 0
    /\ losses = Unbound

\* MultiKmeansQuantizer(dim, codebook_size, num_codebooks): centers drawn at
\* random (here: entries in vals), frame_entropy_scale zero
Construct(shapes, vals) ==
    /\ \E shape \in shapes :
        \E centers \in CenterTensors(shape[1], shape[2], shape[3], vals) :
            /\ objs = <<NewObj(shape[1], shape[2], shape[3], 1)>>
            /\ heap = <<centers, 0>>
    /\ pc = "idle"
    /\ NoFrame
    /\ last = NoStep
    /\ ret = NoCall
    /\ optim_steps = 0

\* a call that runs in one action returns
Returns(r) ==
    /\ Idle
    /\ pc' = "returned"
    /\ ret' = r
    /\ UNCHANGED <<self, x, indexes, i, num_iters, losses, last>>

\* decode(code)
DecodeCall(o, code) ==
    /\ Returns([method |-> "decode", self |-> o, code |-> code, raised |-> None,
                value |-> Decode(objs[o], code)])
    /\ UNCHANGED <<heap, objs, optim_steps>>

\* refine_indexes(x, indexes)
RefineIndexesCall(o, xx, idx) ==
    /\ Returns([method |-> "refine_indexes", self |-> o, x |-> xx, indexes |-> idx,
                raised |-> None, value |-> RefineIndexes(objs[o], xx, idx)])
    /\ UNCHANGED <<heap, objs, optim_steps>>

\* encode(x, num_iters), up to the loop: indexes = torch.zeros(B, num_codebooks)
EncodeStart(o, xx, n) ==
    /\ Idle
    /\ pc' = "encode"
    /\ self' = o
    /\ x' = xx
    /\ num_iters' = n
    /\ i' = 0
    /\ indexes' = [b \in DOMAIN xx |-> [c \in Range0(objs[o].num_codebooks) |-> 0]]
    /\ UNCHANGED <<heap, objs, losses, last, ret, optim_steps>>

\* one iteration of encode's loop: indexes = self.refine_indexes(x, indexes)
EncodeStep ==
    /\ pc = "encode"
    /\ i < num_iters
    /\ indexes' = RefineIndexes(objs[self], x, indexes)
    /\ i' = i + 1
    /\ last' = [taken |-> TRUE, in |-> indexes, indexes |-> indexes']
    /\ UNCHANGED <<heap, objs, pc, self, x, num_iters, losses, ret, optim_steps>>

\* encode's return, after the loop
EncodeReturn ==
    /\ pc = "encode"
    /\ i = num_iters
    /\ ret' = [method |-> "encode", self |-> self, x |-> x, num_iters |-> num_iters,
               iters |-> i, raised |-> None, value |-> indexes]
    /\ pc' = "returned"
    /\ UNCHANGED <<heap, objs, self, x, indexes, i, num_iters, losses, last, optim_steps>>

\* forward(x, num_iters), up to the loop:
\* indexes = torch.randint(codebook_size - 1, (B, num_codebooks)), whose entries
\* are drawn from [0, codebook_size - 1)
ForwardStart(o, xx, n) ==
    /\ Idle
    /\ pc' = "forward"
    /\ self' = o
    /\ x' = xx
    /\ num_iters' = n
    /\ i' = 0
    /\ indexes' \in CodeTensors(Size0(xx), objs[o].num_codebooks, objs[o].codebook_size - 1)
    /\ UNCHANGED <<heap, objs, losses, last, ret, optim_steps>>

ForwardBindFirstOnly(now, step) ==
    IF ~now.bound
    THEN [bound |-> TRUE,
          entropy_loss |-> step.entropy_loss, frame_entropy |-> step.frame_entropy,
          reconstruction_loss |-> step.reconstruction_loss]
    ELSE now

\* the names an iteration of forward's loop (re)binds from the step's result
ForwardBind(now, step) ==
    [bound |-> TRUE,
     entropy_loss |-> step.entropy_loss, frame_entropy |-> step.frame_entropy,
     reconstruction_loss |-> step.reconstruction_loss]

\* one iteration of forward's loop: indexes, entropy_loss, frame_entropy,
\* reconstruction_loss = self.refine_indexes_stochastic(x, indexes)
ForwardStep ==
    /\ pc = "forward"
    /\ i < num_iters
    /\ \E sample \in CategoricalSupport(objs[self], x, indexes) :
        LET step == RefineIndexesStochastic(objs[self], x, indexes, sample)
        IN  /\ indexes' = step.indexes
            /\ losses' = ForwardBind(losses, step)
            /\ last' = [taken |-> TRUE, in |-> indexes, indexes |-> step.indexes]
    /\ i' = i + 1
    /\ UNCHANGED <<heap, objs, pc, self, x, num_iters, ret, optim_steps>>

\* forward's return, after the loop; a name the loop never bound is unbound
ForwardReturn ==
    /\ pc = "forward"
    /\ i = num_iters
    /\ ret' = IF ~losses.bound
              THEN [method |-> "forward", self |-> self, x |-> x, num_iters |-> num_iters,
                    iters |-> i, raised |-> "UnboundLocalError", value |-> None]
              ELSE [method |-> "forward", self |-> self, x |-> x, num_iters |-> num_iters,
                    iters |-> i, raised |-> None,
                    value |-> [indexes |-> indexes,
                               entropy_loss |-> losses.entropy_loss,
                               frame_entropy |-> losses.frame_entropy,
                               reconstruction_loss |-> losses.reconstruction_loss]]
    /\ pc' = "returned"
    /\ UNCHANGED <<heap, objs, self, x, indexes, i, num_iters, losses, last, optim_steps>>

\* get_product_quantizer(): construct ans (two fresh parameters: centers drawn
\* at random, frame_entropy_scale zero), then assign ans.centers entry by entry
GetProductQuantizer(o) ==
    /\ Len(objs) < MaxObjs
    /\ \E v \in DriverVals :
        LET ans == ProductObj(objs[o], Len(heap) + 1)
            fresh == [c \in Range0(ans.num_codebooks) |->
                        [k \in Range0(ans.codebook_size) |-> [d \in Range0(ans.dim) |-> v]]]
            constructed == heap \o <<fresh, 0>>
        IN  /\ heap' = [constructed EXCEPT ![ans.centers] = ProductCenters(objs[o], fresh)]
            /\ objs' = Append(objs, ans)
            /\ Returns([method |-> "get_product_quantizer", self |-> o, raised |-> None,
                        value |-> Len(objs) + 1])
    /\ UNCHANGED optim_steps

\* compute_ref_loss(x): its first statement calls self._logits(x), a name the
\* object does not resolve
ComputeRefLoss(o, xx) ==
    /\ "_logits" \notin Attributes
    /\ Returns([method |-> "compute_ref_loss", self |-> o, x |-> xx,
                raised |-> "AttributeError", value |-> None])
    /\ UNCHANGED <<heap, objs, optim_steps>>

\* the driver is done with the result of the call that returned
Resume ==
    /\ pc = "returned"
    /\ pc' = "idle"
    /\ self' = None
    /\ x' = None
    /\ indexes' = None
    /\ i' = 0
    /\ num_iters' = 0
    /\ losses' = Unbound
    /\ last' = NoStep
    /\ ret' = NoCall
    /\ UNCHANGED <<heap, objs, optim_steps>>

\* the driver's optim.step(), between calls: a parameter of one object gets a
\* new value (for centers: its first entry)
OptimStep(o) ==
    /\ Idle
    /\ optim_steps < MaxOptimSteps
    /\ optim_steps' = optim_steps + 1
    /\ \/ /\ objs[o].num_codebooks > 0
          /\ \E v \in DriverVals :
                /\ v # Centers(objs[o])[0][0][0]
                /\ heap' = [heap EXCEPT ![objs[o].centers][0][0][0] = v]
       \/ \E v \in ScaleVals :
            /\ v # FrameEntropyScale(objs[o])
            /\ heap' = [heap EXCEPT ![objs[o].frame_entropy_scale] = v]
    /\ UNCHANGED <<objs, pc, self, x, indexes, i, num_iters, losses, last, ret>>

----------------------------------------------------------------------------
(* Specifications. *)

\* the driver calls a method of an object, with x entries in vals and
\* num_iters in iters
Call(vals, iters) ==
    \/ \E o \in DOMAIN objs : \E B \in CodeBatchSizes :
        \E code \in CodeTensors(B, objs[o].num_codebooks, objs[o].codebook_size) :
            DecodeCall(o, code)
    \/ \E o \in DOMAIN objs : \E B \in BatchSizes :
        \E xx \in XTensors(B, objs[o].dim, vals) :
            \E idx \in CodeTensors(B, objs[o].num_codebooks, objs[o].codebook_size) :
                RefineIndexesCall(o, xx, idx)
    \/ \E o \in DOMAIN objs : \E B \in BatchSizes :
        \E xx \in XTensors(B, objs[o].dim, vals) :
            \E n \in iters : EncodeStart(o, xx, n)
    \/ \E o \in DOMAIN objs : \E B \in BatchSizes :
        \E xx \in XTensors(B, objs[o].dim, vals) :
            \E n \in iters : ForwardStart(o, xx, n)
    \/ \E o \in DOMAIN objs : \E B \in BatchSizes :
        \E xx \in XTensors(B, objs[o].dim, vals) : ComputeRefLoss(o, xx)
    \/ \E o \in DOMAIN objs : GetProductQuantizer(o)

\* a running call goes on, a returned call is left behind
Run ==
    \/ EncodeStep
    \/ EncodeReturn
    \/ ForwardStep
    \/ ForwardReturn
    \/ Resume

\* The engine: every method and the merge, on objects and inputs with entries
\* in DriverVals; nothing updates the parameters.
Init == Construct(DriverShapes, DriverVals)

Next == Call(DriverVals, 0..MaxIters) \/ Run

Spec == Init /\ [][Next]_vars

\* The search: decode, refine_indexes and encode on a constructed object, with
\* entries in Vals.
InitSearch == Construct(Shapes, Vals)

NextSearch ==
    \/ \E o \in DOMAIN objs : \E B \in CodeBatchSizes :
        \E code \in CodeTensors(B, objs[o].num_codebooks, objs[o].codebook_size) :
            DecodeCall(o, code)
    \/ \E o \in DOMAIN objs : \E B \in BatchSizes :
        \E xx \in XTensors(B, objs[o].dim, Vals) :
            \E idx \in CodeTensors(B, objs[o].num_codebooks, objs[o].codebook_size) :
                RefineIndexesCall(o, xx, idx)
    \/ \E o \in DOMAIN objs : \E B \in BatchSizes :
        \E xx \in XTensors(B, objs[o].dim, Vals) :
            \E n \in 0..MaxIters : EncodeStart(o, xx, n)
    \/ EncodeStep
    \/ EncodeReturn
    \/ Resume

SpecSearch == InitSearch /\ [][NextSearch]_vars

\* Training: the engine with the optimizer updating parameters between calls.
InitTrain == Construct(DriverShapes, DriverVals)

NextTrain ==
    \/ Call(DriverVals, {0, 1})
    \/ Run
    \/ \E o \in DOMAIN objs : OptimStep(o)

SpecTrain == InitTrain /\ [][NextTrain]_vars

\* (dim, codebook_size, num_codebooks) of the banks that are merged: an even
\* and an odd number of codebooks
MergeShapes == {<<1, 2, 2>>, <<1, 2, 3>>}

\* The merge: get_product_quantizer on a constructed bank or on a merged one,
\* and decode on either.
InitMerge == Construct(MergeShapes, DriverVals)

NextMerge ==
    \/ \E o \in DOMAIN objs : GetProductQuantizer(o)
    \/ \E o \in DOMAIN objs : \E B \in BatchSizes :
        \E code \in CodeTensors(B, objs[o].num_codebooks, objs[o].codebook_size) :
            DecodeCall(o, code)
    \/ Resume

SpecMerge == InitMerge /\ [][NextMerge]_vars

----------------------------------------------------------------------------
(* Properties. *)

\* squared reconstruction error of row b of `code` against row b of xx
SqErr(obj, xx, code, b) ==
    SumTo([d \in Range0(obj.dim) |->
              (Decode(obj, code)[b][d] - xx[b][d]) * (Decode(obj, code)[b][d] - xx[b][d])],
          obj.dim)

\* a call of `method` has returned and ret holds its outcome
Returned(method) == pc = "returned" /\ ret.method = method

\* the all-zero code tuple for the rows of xx
ZeroCode(obj, xx) == [b \in DOMAIN xx |-> [c \in Range0(obj.num_codebooks) |-> 0]]

\* C1, as claimed: for every bank, x and input code tuple, refine_indexes
\* returns a code tuple whose squared reconstruction error is at most that of
\* the input tuple.
C1_RefineNeverIncreasesError ==
    Returned("refine_indexes") =>
        \A b \in DOMAIN ret.x :
            SqErr(objs[ret.self], ret.x, ret.value, b)
                <= SqErr(objs[ret.self], ret.x, ret.indexes, b)

\* C1, amended: every entry of the tuple refine_indexes returns, put alone into
\* the input tuple (the other entries kept), gives a squared error at most that
\* of the input tuple; with one codebook this is the whole returned tuple.
C1_RefineEachCodebookAlone ==
    Returned("refine_indexes") =>
        LET obj == objs[ret.self]
        IN  /\ \A b \in DOMAIN ret.x : \A c \in Range0(obj.num_codebooks) :
                    SqErr(obj, ret.x, [ret.indexes EXCEPT ![b][c] = ret.value[b][c]], b)
                        <= SqErr(obj, ret.x, ret.indexes, b)
            /\ obj.num_codebooks = 1 =>
                    \A b \in DOMAIN ret.x :
                        SqErr(obj, ret.x, ret.value, b) <= SqErr(obj, ret.x, ret.indexes, b)

\* C1 witness: refine_indexes has returned on a bank of two codebooks, it
\* changed both entries of the tuple, and each change alone lowers the error.
C1_Witness ==
    /\ Returned("refine_indexes")
    /\ objs[ret.self].num_codebooks = 2
    /\ \A c \in Range0(2) :
        /\ ret.value[0][c] # ret.indexes[0][c]
        /\ SqErr(objs[ret.self], ret.x, [ret.indexes EXCEPT ![0][c] = ret.value[0][c]], 0)
              < SqErr(objs[ret.self], ret.x, ret.indexes, 0)

\* C2, as claimed: for every bank, x and num_iters >= 1, the squared error of
\* decode(encode(x, num_iters)) is at most that of decode(all-zero tuple).
C2_EncodeNoWorseThanZeroCode ==
    (Returned("encode") /\ ret.num_iters >= 1) =>
        \A b \in DOMAIN ret.x :
            SqErr(objs[ret.self], ret.x, ret.value, b)
                <= SqErr(objs[ret.self], ret.x, ZeroCode(objs[ret.self], ret.x), b)

\* C2, amended: on a bank of one codebook, for every x and num_iters >= 1, the
\* squared error of decode(encode(x, num_iters)) is at most that of
\* decode(all-zero tuple).
C2_EncodeNoWorseThanZeroCodeOneCodebook ==
    (Returned("encode") /\ ret.num_iters >= 1 /\ objs[ret.self].num_codebooks = 1) =>
        \A b \in DOMAIN ret.x :
            SqErr(objs[ret.self], ret.x, ret.value, b)
                <= SqErr(objs[ret.self], ret.x, ZeroCode(objs[ret.self], ret.x), b)

\* C2 witness: encode with num_iters >= 1 has returned on a bank of one
\* codebook a tuple other than all-zero, with a smaller error.
C2_Witness ==
    /\ Returned("encode")
    /\ ret.num_iters >= 1
    /\ objs[ret.self].num_codebooks = 1
    /\ ret.value[0][0] # 0
    /\ SqErr(objs[ret.self], ret.x, ret.value, 0)
          < SqErr(objs[ret.self], ret.x, ZeroCode(objs[ret.self], ret.x), 0)

\* the tuple of the merged bank that stands for `code` of the source bank:
\* (code[2c'] * K + code[2c'+1]) for every merged codebook c'
MergedCode(src, code) ==
    [b \in DOMAIN code |->
        [c \in Range0(src.num_codebooks \div 2) |->
            code[b][2 * c] * src.codebook_size + code[b][2 * c + 1]]]

\* C3: for a bank with even C, get_product_quantizer returns a bank with
\* K' = K*K centers per codebook and C' = C/2 codebooks, with
\* new_centers[c'][k1*K + k2] = centers[2c'][k1] + centers[2c'+1][k2] for every
\* c', k1, k2; so the merged bank decodes the merged tuple of every code
\* tuple to what the source bank decodes the tuple to.
C3_MergeReproducesDecode ==
    (Returned("get_product_quantizer") /\ objs[ret.self].num_codebooks % 2 = 0) =>
        LET src == objs[ret.self]
            ans == objs[ret.value]
            K == src.codebook_size
        IN  /\ ans.codebook_size = K * K
            /\ 2 * ans.num_codebooks = src.num_codebooks
            /\ ans.dim = src.dim
            /\ \A c \in Range0(ans.num_codebooks) : \A k1, k2 \in Range0(K) :
                \A d \in Range0(src.dim) :
                    Centers(ans)[c][k1 * K + k2][d]
                        = Centers(src)[2 * c][k1][d] + Centers(src)[2 * c + 1][k2][d]
            /\ \A code \in CodeTensors(1, src.num_codebooks, K) :
                    Decode(ans, MergedCode(src, code)) = Decode(src, code)

\* C3 witness: get_product_quantizer has returned on a bank of two codebooks
\* whose four pairwise sums of centers are not all equal.
C3_Witness ==
    /\ Returned("get_product_quantizer")
    /\ objs[ret.self].num_codebooks = 2
    /\ objs[ret.value].num_codebooks = 1
    /\ Centers(objs[ret.value])[0][1] # Centers(objs[ret.value])[0][2]

\* C4: for every code with entries in [0, K), decode(code) is, row by row,
\* the coordinate-wise sum over the codebooks c of centers[c][code[c]]; a row's
\* result does not depend on the other rows; with dim=2, C=1, K=2 and
\* centers=[[1,0],[0,1]], decode([0]) = [1,0] and decode([1]) = [0,1].
C4_DecodeIsSumOfChosenCenters ==
    Returned("decode") =>
        LET obj == objs[ret.self]
        IN  /\ DOMAIN ret.value = DOMAIN ret.code
            /\ \A b \in DOMAIN ret.code :
                /\ DOMAIN ret.value[b] = Range0(obj.dim)
                /\ \A d \in Range0(obj.dim) :
                    ret.value[b][d]
                        = SumTo([c \in Range0(obj.num_codebooks) |->
                                    heap[obj.centers][c][ret.code[b][c]][d]],
                                obj.num_codebooks)
                /\ ret.value[b] = Decode(obj, [r \in Range0(1) |-> ret.code[b]])[0]
            /\ (/\ obj.dim = 2 /\ obj.num_codebooks = 1 /\ obj.codebook_size = 2
                /\ Centers(obj)[0][0] = [d \in Range0(2) |-> IF d = 0 THEN 1 ELSE 0]
                /\ Centers(obj)[0][1] = [d \in Range0(2) |-> IF d = 0 THEN 0 ELSE 1])
               => \A b \in DOMAIN ret.code :
                    ret.value[b] = [d \in Range0(2) |-> IF d = ret.code[b][0] THEN 1 ELSE 0]

\* C4 witness: decode has returned on the bank dim=2, C=1, K=2,
\* centers=[[1,0],[0,1]] for the two-row code [[0],[1]].
C4_Witness ==
    /\ Returned("decode")
    /\ objs[ret.self].dim = 2
    /\ Centers(objs[ret.self])[0][0] = [d \in Range0(2) |-> IF d = 0 THEN 1 ELSE 0]
    /\ Centers(objs[ret.self])[0][1] = [d \in Range0(2) |-> IF d = 0 THEN 0 ELSE 1]
    /\ Size0(ret.code) = 2
    /\ ret.code[0][0] = 0
    /\ ret.code[1][0] = 1
    /\ ret.value[0][0] = 1
    /\ ret.value[1][1] = 1

\* C5, as claimed: for every x whose trailing dimension is dim,
\* compute_ref_loss(x) completes and returns a scalar (the relative
\* sum-squared reconstruction error).
C5_ComputeRefLossReturnsScalar ==
    Returned("compute_ref_loss") => (ret.raised = None /\ ret.value # None)

\* refine_indexes applied n times in sequence, starting from idx
RECURSIVE RefineTimes(_, _, _, _)
RefineTimes(obj, xx, idx, n) ==
    IF n = 0 THEN idx ELSE RefineIndexes(obj, xx, RefineTimes(obj, xx, idx, n - 1))

C7_GradientPathsSeparated ==
    (pc = "forward" /\ losses.bound) =>
        /\ losses.frame_entropy.grad = {"frame_entropy_scale"}
        /\ losses.entropy_loss.grad = {"centers"}
        /\ losses.reconstruction_loss.grad = {"centers"}

\* C7 witness: forward has run a stochastic step on a bank of two codebooks
\* and holds its three losses.
C7_Witness ==
    /\ pc = "forward"
    /\ i >= 1
    /\ losses.bound
    /\ objs[self].num_codebooks = 2
    /\ losses.frame_entropy.fn = "avg_frame_entropy"

\* the three losses of the stochastic step that is given idx
StepLosses(obj, xx, idx) ==
    LET step == RefineIndexesStochastic(obj, xx, idx, idx)
    IN  [entropy_loss |-> step.entropy_loss, frame_entropy |-> step.frame_entropy,
         reconstruction_loss |-> step.reconstruction_loss]

\* C8: forward(x, num_iters) applies the stochastic step num_iters times, each
\* step on the tuple the previous step produced, and returns the tuple of the
\* final step with the entropy_loss, frame_entropy and reconstruction_loss of
\* that same step (the losses of the step given last.in, which produced
\* last.indexes).
C8_ForwardReturnsLastStep ==
    /\ (pc = "forward" /\ i >= 1) =>
        /\ last.taken
        /\ indexes = last.indexes
        /\ losses.bound
        /\ [entropy_loss |-> losses.entropy_loss, frame_entropy |-> losses.frame_entropy,
            reconstruction_loss |-> losses.reconstruction_loss]
              = StepLosses(objs[self], x, last.in)
    /\ (Returned("forward") /\ ret.raised = None) =>
        /\ ret.iters = ret.num_iters
        /\ last.taken
        /\ ret.value.indexes = last.indexes
        /\ [entropy_loss |-> ret.value.entropy_loss,
            frame_entropy |-> ret.value.frame_entropy,
            reconstruction_loss |-> ret.value.reconstruction_loss]
              = StepLosses(objs[ret.self], ret.x, last.in)

\* C8 witness: forward has returned after >= 2 steps, and the losses it
\* returns differ from those of the first step (which was given the all-zero
\* tuple, K being 2).
C8_Witness ==
    /\ Returned("forward")
    /\ ret.raised = None
    /\ ret.num_iters >= 2
    /\ objs[ret.self].codebook_size = 2
    /\ ret.value.entropy_loss
          # StepLosses(objs[ret.self], ret.x, ZeroCode(objs[ret.self], ret.x)).entropy_loss

\* C9, as claimed: every division by the total energy of x is guarded by an
\* additive epsilon, the one of reconstruction_loss in the stochastic step
\* included, so no x, the all-zero x included, gives a division by zero: the
\* reconstruction_loss of a step is never inf or NaN.
C9_EnergyDivisionsGuarded ==
    (pc = "forward" /\ losses.bound) =>
        /\ ~DenominatorIsZero(losses.reconstruction_loss.den)
        /\ losses.reconstruction_loss.float = "finite"

\* the parameter storages of object o
Storages(o) == {objs[o].centers, objs[o].frame_entropy_scale}

\* C10: no engine operation changes centers or temperature of an existing
\* bank (only the optimizer does); the bank get_product_quantizer returns has
\* parameters of its own, with temperature 0; so an update of one bank's
\* parameters leaves every other bank's unchanged.
C10_EngineKeepsParameters ==
    /\ [](\A o1, o2 \in DOMAIN objs : o1 # o2 => Storages(o1) \cap Storages(o2) = {})
    /\ [](Returned("get_product_quantizer") => FrameEntropyScale(objs[ret.value]) = 0)
    /\ [][optim_steps' = optim_steps =>
            \A o \in DOMAIN objs :
                /\ objs'[o] = objs[o]
                /\ heap'[objs[o].centers] = heap[objs[o].centers]
                /\ heap'[objs[o].frame_entropy_scale] = heap[objs[o].frame_entropy_scale]]_vars
    /\ [][optim_steps' # optim_steps =>
            \A o1, o2 \in DOMAIN objs :
                (o1 # o2 /\ \E a \in Storages(o1) : heap'[a] # heap[a])
                    => \A a \in Storages(o2) : heap'[a] = heap[a]]_vars

\* C10 witness: after get_product_quantizer, the optimizer has updated the
\* source bank's temperature and the merged bank's is still 0.
C10_Witness ==
    /\ Len(objs) = 2
    /\ optim_steps >= 1
    /\ FrameEntropyScale(objs[1]) # 0
    /\ FrameEntropyScale(objs[2]) = 0

\* C11, as claimed: get_product_quantizer on a bank with an odd number of
\* codebooks is rejected with an assertion failure; it never returns a merged
\* bank of floor(C/2) codebooks that has dropped the last source codebook.
C11_OddMergeRejected ==
    (Returned("get_product_quantizer") /\ objs[ret.self].num_codebooks % 2 = 1) =>
        /\ ret.raised = "AssertionError"
        /\ ret.value = None

\* C12: forward draws its initial tuple with every entry in [0, K-2] (for
\* K = 2 the all-zero tuple); the exclusion of K-1 is at initialization only:
\* the first stochastic step can put every index of [0, K-1], K-1 included,
\* at every entry of the tuple.
C12_InitialTupleExcludesLast ==
    (pc = "forward" /\ i = 0) =>
        LET obj == objs[self]
            K == obj.codebook_size
        IN  /\ DOMAIN indexes = DOMAIN x
            /\ \A b \in DOMAIN indexes : \A c \in Range0(obj.num_codebooks) :
                    indexes[b][c] \in 0..(K - 2)
            /\ K = 2 => indexes = ZeroCode(obj, x)
            /\ num_iters >= 1 =>
                \A b \in DOMAIN indexes : \A c \in Range0(obj.num_codebooks) :
                    \A k \in Range0(K) : ENABLED (ForwardStep /\ indexes'[b][c] = k)

\* C12 witness: on a bank with K = 3, forward started from a tuple without
\* the index 2 and its first stochastic step has drawn the index 2.
C12_Witness ==
    /\ pc = "forward"
    /\ i = 1
    /\ objs[self].codebook_size = 3
    /\ last.taken
    /\ \A c \in Range0(objs[self].num_codebooks) : last.in[0][c] \in {0, 1}
    /\ indexes[0][0] = 2

====
